---- MODULE Spec2Model ----
(***************************************************************************)
(* Session / provider multiplexing core of claudecodeui: the WebSocket     *)
(* chat dispatcher (handleChatMessage), the two HTTP streaming adapters    *)
(* (OpenAICompatibleProvider, WenxinProvider), the per-adapter session     *)
(* registry (BaseProvider.activeSessions), the Wenxin token cache and the  *)
(* per-user connection map.                                                *)
(***************************************************************************)
EXTENDS Integers, Sequences, FiniteSets, TLC

(* ---------- bounds ---------- *)
MaxTurns == 2
MaxSoloTurns == 1
MaxFrames == 1
MaxAborts == 2
MaxBotCalls == 2
MaxTicks == 3
MaxStatus == 2
MaxSockets == 3

(* ---------- universes ---------- *)
Turns == 1..MaxTurns
\* the sockets, in the order they connect, and the user each is authenticated
\* as: user 1 has two tabs, user 2 one
ConnOwner == <<1, 2, 1>>
Conns == DOMAIN ConnOwner
\* one socket per user
MainConns == {1, 2}
Users == {ConnOwner[c] : c \in Conns}
NoUser == 0
NoSession == 0
None == "none"
\* null / undefined for a secret or a token
NoKey == << >>

\* session ids a client may put in options.sessionId / data.sessionId
ClientSessionIds == {1}
\* an id the server generates for turn t: `${providerId}-${Date.now()}-${rand}`
GenSessionId(t) == 100 + t
\* every session id of the model
SessionIds == {NoSession} \cup ClientSessionIds \cup {GenSessionId(t) : t \in Turns}

Adapters == {"oai", "wenxin"}
ProviderIds == {"kimi", "wenxin", "claude", "bogus"}
CredTypes == {"moonshot_api_key", "baidu_api_key", "baidu_secret_key"}
EnvKeys == {"MOONSHOT_API_KEY", "BAIDU_API_KEY", "BAIDU_SECRET_KEY"}

\* the socket a connection id belongs to is authenticated as this user
ConnUser(c) == ConnOwner[c]

\* bot gateway: the processMessage calls, the conversations (platform and
\* conversationId) and the session ids the SDK issues
BotCalls == 1..MaxBotCalls
BotKeys == {<<"dingtalk", 1>>, <<"wechat_work", 1>>}
BotGenSessionId(i) == 200 + i

\* options.history of an ai-command: absent, or one earlier exchange (the roles
\* of its messages)
NoHistory == << >>
HistoryOptions == {NoHistory, <<"user", "assistant">>}

\* the contents the credential store may have (user 1 stores, user 2 relies on
\* the environment) and the environments the process may start with
StoredOptions == SUBSET ({1} \X CredTypes)
EnvOptions == SUBSET EnvKeys

VARIABLES
  connectedClients,  \* Map<userId, Set<WebSocket>>
  credentialsDb,     \* set of <<userId, credentialType>> with an active stored credential
  env,               \* set of environment keys that are set (non-empty)
  activeSessions,    \* per adapter: Map sessionId -> session data
  cachedToken,       \* Wenxin token cache
  tokenExpiry,
  now,               \* Date.now(), in seconds
  turns,             \* per start-turn command: the state of its handler
  nextTurn,          \* number of start-turn commands received so far
  sent,              \* per session id: every object handed to writer.send, in order
  nAborts,           \* number of abort-session commands received so far
  delivery,          \* sockets an event should have reached and did not / reached wrongly
  abortLog,          \* the calls of abort() made back to back (no other step between)
  nTicks,            \* number of times the clock was advanced
  botSessions,       \* bot gateway: Map sessionKey -> {sessionId, lastActive}
  botCalls,          \* bot gateway: the processMessage calls and their position
  lastSweep,         \* the keys the last sweep pass removed and those it kept
  cleared,           \* keys cleared with no message started for them since
  lastCall,          \* connection map: the last call made on it
  wsClient           \* browser: the state of the WebSocket provider component

\* what the chat dispatcher, the adapters and the bot gateway never touch
auxVars == <<lastCall, wsClient>>

botVars == <<botSessions, botCalls, lastSweep, cleared>>

vars == <<connectedClients, credentialsDb, env, activeSessions, cachedToken,
          tokenExpiry, now, turns, nextTurn, sent, nAborts, delivery, abortLog,
          nTicks, botSessions, botCalls, lastSweep, cleared, lastCall, wsClient>>

\* user ids the connection map is called with: the users of the sockets and
\* one more
MapUsers == Users \cup {3}
NoCall == [op |-> None, userId |-> NoUser, ws |-> 0]

\* browser: the sockets the page may create, the values of the auth token,
\* and the component before the page has loaded
Sockets == 1..MaxSockets
NoAuth == None
AuthTokens == {"t1", "t2"}
UnusedSocket == [state |-> "unused", token |-> NoAuth]
UnloadedClient ==
  [pc |-> "unloaded", platform |-> FALSE, token |-> NoAuth, unmounted |-> FALSE,
   wsRef |-> 0, isConnected |-> FALSE, reconnectTimeout |-> FALSE,
   connectionTimeout |-> 0, reconnectAttempt |-> 0,
   sockets |-> [n \in Sockets |-> UnusedSocket]]

(* ---------- provider registry ---------- *)
NoConfig == [type |-> None, credentialType |-> None, envKey |-> None]

PROVIDER_REGISTRY ==
  [p \in {"kimi", "wenxin", "claude"} |->
     CASE p = "kimi"   -> [type |-> "openai-compatible",
                           credentialType |-> "moonshot_api_key",
                           envKey |-> "MOONSHOT_API_KEY"]
       [] p = "wenxin" -> [type |-> "wenxin",
                           credentialType |-> "baidu_api_key",
                           envKey |-> "BAIDU_API_KEY"]
       [] p = "claude" -> [type |-> "claude-sdk",
                           credentialType |-> None,
                           envKey |-> None]]

getProviderConfig(providerId) ==
  IF providerId \in DOMAIN PROVIDER_REGISTRY THEN PROVIDER_REGISTRY[providerId]
  ELSE NoConfig

(* ---------- credentials ---------- *)
\* the secret values: a stored credential of a user, an environment value
DbValue(userId, credentialType) == <<"db", userId, credentialType>>
EnvValue(envKey) == <<"env", NoUser, envKey>>

\* credentialsDb.getActiveCredential: row?.credential_value || null
getActiveCredential(db, userId, credentialType) ==
  IF <<userId, credentialType>> \in db THEN DbValue(userId, credentialType) ELSE NoKey

\* process.env[k] (undefined or '' count as absent)
processEnv(e, envKey) == IF envKey \in e THEN EnvValue(envKey) ELSE NoKey

\* variant: the environment value wins over the stored credential
resolveApiKey_EnvFirst(db, e, providerId, userId) ==
  LET config == getProviderConfig(providerId) IN
  IF config = NoConfig THEN NoKey
  ELSE IF config.envKey # None /\ processEnv(e, config.envKey) # NoKey
       THEN processEnv(e, config.envKey)
       ELSE IF userId # NoUser /\ config.credentialType # None
            THEN getActiveCredential(db, userId, config.credentialType)
            ELSE NoKey

resolveApiKey(db, e, providerId, userId) ==
  LET config == getProviderConfig(providerId) IN
  IF config = NoConfig THEN NoKey
  ELSE LET dbKey == IF userId # NoUser /\ config.credentialType # None
                    THEN getActiveCredential(db, userId, config.credentialType)
                    ELSE NoKey
       IN IF dbKey # NoKey THEN dbKey
          ELSE IF config.envKey # None /\ processEnv(e, config.envKey) # NoKey
               THEN processEnv(e, config.envKey)
               ELSE NoKey

resolveCredentials(db, e, userId) ==
  LET dbApi == IF userId # NoUser THEN getActiveCredential(db, userId, "baidu_api_key") ELSE NoKey
      dbSec == IF userId # NoUser THEN getActiveCredential(db, userId, "baidu_secret_key") ELSE NoKey
  IN [apiKey    |-> IF dbApi # NoKey THEN dbApi ELSE processEnv(e, "BAIDU_API_KEY"),
      secretKey |-> IF dbSec # NoKey THEN dbSec ELSE processEnv(e, "BAIDU_SECRET_KEY")]

(* ---------- session registry (BaseProvider) ---------- *)
addSession(sessions, sessionId, sessionData) ==
  [s \in (DOMAIN sessions) \cup {sessionId} |->
     IF s = sessionId THEN sessionData ELSE sessions[s]]

removeSession(sessions, sessionId) ==
  [s \in (DOMAIN sessions) \ {sessionId} |-> sessions[s]]

isActive(sessions, sessionId) == sessionId \in DOMAIN sessions

EmptyMap == [s \in {} |-> 0]

\* GET /api/ai-providers: the available flag of one provider for one user
providerAvailable(db, e, providerId, userId) ==
  LET config == getProviderConfig(providerId) IN
  IF config.type \in {"claude-sdk", "cursor-cli", "codex-sdk"} THEN TRUE
  ELSE IF config.credentialType # None
  THEN \/ getActiveCredential(db, userId, config.credentialType) # NoKey
       \/ (config.envKey # None /\ processEnv(e, config.envKey) # NoKey)
  ELSE FALSE

(* ---------- connection map ---------- *)
\* the state of the dispatcher and the adapters outside the connection map
chatVarsRest == <<credentialsDb, env, activeSessions, cachedToken, tokenExpiry,
                  turns, nextTurn, sent, nAborts, delivery, abortLog>>

addConnectedClient(clients, userId, ws) ==
  [u \in (DOMAIN clients) \cup {userId} |->
     IF u = userId
     THEN (IF u \in DOMAIN clients THEN clients[u] ELSE {}) \cup {ws}
     ELSE clients[u]]

\* the same without the deletion of an emptied user key
removeConnectedClient_KeepKey(clients, userId, ws) ==
  IF userId \in DOMAIN clients
  THEN [clients EXCEPT ![userId] = @ \ {ws}]
  ELSE clients

removeConnectedClient(clients, userId, ws) ==
  IF userId \in DOMAIN clients
  THEN IF clients[userId] \ {ws} = {}
       THEN [u \in (DOMAIN clients) \ {userId} |-> clients[u]]
       ELSE [clients EXCEPT ![userId] = @ \ {ws}]
  ELSE clients

OpenSockets(clients) == UNION {clients[u] : u \in DOMAIN clients}

\* sockets registered for a user
SocketsOf(clients, userId) == IF userId \in DOMAIN clients THEN clients[userId] ELSE {}

(* ---------- writer ---------- *)
\* WebSocketWriter.send writes to the one socket the writer wraps (sockets stay
\* OPEN, readyState 1, for the time modelled)
WriterTargets(ws) == {ws}

\* the message objects: claude-response messages are named by their data.type
Event(type, sessionId, t, ok) ==
  [type |-> type, sessionId |-> sessionId, turn |-> t, ok |-> ok]

\* bookkeeping of one send through the writer of socket ws: the registered
\* sockets of the owning user that were not written to, and the sockets of
\* other users that were
Deliver(d, clients, ws) ==
  [missed  |-> d.missed \cup (SocketsOf(clients, ConnUser(ws)) \ WriterTargets(ws)),
   foreign |-> d.foreign \cup {c \in WriterTargets(ws) : ConnUser(c) # ConnUser(ws)}]

\* the log after writer.send was called with each event of evs, in order
RECURSIVE Emit(_, _)
Emit(log, evs) ==
  IF evs = << >> THEN log
  ELSE Emit([log EXCEPT ![Head(evs).sessionId] = Append(@, Head(evs))], Tail(evs))

(* ---------- turns ---------- *)
\* writer.send(ev) for each event of evs, through the writer of socket ws
Send(evs, ws) ==
  /\ sent' = Emit(sent, evs)
  /\ delivery' = IF evs = << >> THEN delivery
                 ELSE Deliver(delivery, connectedClients, ws)

\* a text, by its length and whether the truncation marker ends it; a
\* reply of processMessage is the response text, the placeholder for an
\* empty response, or the error message
NoReply == [kind |-> None, len |-> 0, truncated |-> FALSE]

\* a processMessage call that has not been made yet
IdleCall ==
  [pc |-> "idle", key |-> <<None, 0>>, resume |-> NoSession, afterClear |-> FALSE,
   newSessionId |-> NoSession, responseText |-> 0, reply |-> NoReply]

IdleTurn ==
  [pc |-> "idle", provider |-> None, userId |-> NoUser, conn |-> 0,
   sessionId |-> NoSession, resume |-> NoSession, aborted |-> FALSE,
   apiKey |-> NoKey, secretKey |-> NoKey, token |-> NoKey, outcome |-> None,
   registered |-> FALSE, requests |-> 0, tokenRequests |-> 0, frames |-> 0,
   messages |-> << >>, fullContent |-> 0]

Init ==
  /\ connectedClients = [u \in {} |-> {}]
  /\ credentialsDb \in StoredOptions
  /\ env \in EnvOptions
  /\ activeSessions = [a \in Adapters |-> EmptyMap]
  /\ cachedToken = NoKey
  /\ tokenExpiry = 0
  /\ now = 0
  /\ turns = [t \in Turns |-> IdleTurn]
  /\ nextTurn = 0
  /\ sent = [s \in SessionIds |-> << >>]
  /\ nAborts = 0
  /\ delivery = [missed |-> {}, foreign |-> {}]
  /\ abortLog = << >>
  /\ nTicks = 0
  /\ botSessions = EmptyMap
  /\ botCalls = [i \in BotCalls |-> IdleCall]
  /\ lastCall = NoCall
  /\ wsClient = UnloadedClient
  /\ lastSweep = [removed |-> {}, kept |-> {}]
  /\ cleared = {}

\* a browser tab opens its chat socket: addConnectedClient(userId, ws)
Connect(c) ==
  /\ c \notin OpenSockets(connectedClients)
  /\ \A d \in Conns : d < c => d \in OpenSockets(connectedClients)
  /\ connectedClients' = addConnectedClient(connectedClients, ConnUser(c), c)
  /\ abortLog' = << >>
  /\ UNCHANGED <<auxVars, botVars, nTicks, credentialsDb, env, activeSessions, cachedToken, tokenExpiry,
                 now, turns, nextTurn, sent, nAborts, delivery>>

\* a call of addConnectedClient(userId, ws)
Register(userId, ws) ==
  /\ connectedClients' = addConnectedClient(connectedClients, userId, ws)
  /\ lastCall' = [op |-> "add", userId |-> userId, ws |-> ws]
  /\ UNCHANGED <<chatVarsRest, botVars, now, nTicks, wsClient>>

\* a call of removeConnectedClient(userId, ws)
Unregister(userId, ws) ==
  /\ connectedClients' = removeConnectedClient(connectedClients, userId, ws)
  /\ lastCall' = [op |-> "remove", userId |-> userId, ws |-> ws]
  /\ UNCHANGED <<chatVarsRest, botVars, now, nTicks, wsClient>>

(* ---------- browser: WebSocket provider component ---------- *)
\* buildWebSocketUrl gives no URL without a token, except in platform mode
HasUrl(cl) == cl.platform \/ cl.token # NoAuth

\* the sockets not created yet, and the one new WebSocket() creates next
UnusedSockets(cl) == {n \in Sockets : cl.sockets[n].state = "unused"}
NewSocket(cl) == CHOOSE n \in UnusedSockets(cl) : \A m \in UnusedSockets(cl) : n <= m

\* connect(): nothing when unmountedRef is set or there is no URL, else a new
\* socket and its connection timeout
connect(cl) ==
  IF cl.unmounted \/ ~HasUrl(cl) THEN cl
  ELSE [cl EXCEPT !.sockets[NewSocket(cl)] = [state |-> "connecting", token |-> cl.token],
                  !.connectionTimeout = NewSocket(cl)]

\* the cleanup of the effect: sets unmountedRef, clears the timers, closes
\* the socket in wsRef
cleanup(cl) ==
  [cl EXCEPT !.unmounted = TRUE, !.reconnectTimeout = FALSE, !.connectionTimeout = 0,
             !.sockets = [n \in Sockets |->
                            IF n = cl.wsRef /\ cl.sockets[n].state = "open"
                            THEN [cl.sockets[n] EXCEPT !.state = "closing"]
                            ELSE cl.sockets[n]]]

\* the page loads and the component renders for the first time, with the token
\* the auth context found, and its effect runs
Mount(platform, token) ==
  /\ wsClient.pc = "unloaded"
  /\ wsClient' = connect([wsClient EXCEPT !.pc = "mounted", !.platform = platform,
                                           !.token = token])
  /\ UNCHANGED <<lastCall, connectedClients, chatVarsRest, botVars, now, nTicks>>

\* the auth token changes: the cleanup of the effect runs, then the effect
\* with the new token
TokenChange(token) ==
  /\ wsClient.pc = "mounted"
  /\ token # wsClient.token
  /\ UnusedSockets(wsClient) # {}
  /\ wsClient' = connect([cleanup(wsClient) EXCEPT !.token = token])
  /\ UNCHANGED <<lastCall, connectedClients, chatVarsRest, botVars, now, nTicks>>

\* onopen of socket n
SocketOpen(n) ==
  /\ wsClient.sockets[n].state = "connecting"
  /\ wsClient' = [wsClient EXCEPT !.sockets[n].state = "open",
                                  !.connectionTimeout = 0,
                                  !.reconnectAttempt = 0,
                                  !.isConnected = TRUE,
                                  !.wsRef = n]
  /\ UNCHANGED <<lastCall, connectedClients, chatVarsRest, botVars, now, nTicks>>

\* the connection timeout fires while socket n is still connecting
ConnectionTimeout(n) ==
  /\ wsClient.connectionTimeout = n
  /\ wsClient.sockets[n].state = "connecting"
  /\ wsClient' = [wsClient EXCEPT !.sockets[n].state = "closing",
                                  !.connectionTimeout = 0]
  /\ UNCHANGED <<lastCall, connectedClients, chatVarsRest, botVars, now, nTicks>>

\* onclose of socket n: it failed to connect, was dropped, or was closed
SocketClose(n) ==
  /\ wsClient.sockets[n].state \in {"connecting", "open", "closing"}
  /\ wsClient' = [wsClient EXCEPT !.sockets[n].state = "closed",
                                  !.connectionTimeout = 0,
                                  !.isConnected = FALSE,
                                  !.wsRef = 0,
                                  !.reconnectAttempt = @ + 1,
                                  !.reconnectTimeout = TRUE]
  /\ UNCHANGED <<lastCall, connectedClients, chatVarsRest, botVars, now, nTicks>>

\* the reconnect timer fires
ReconnectTimeout ==
  /\ wsClient.reconnectTimeout
  /\ UnusedSockets(wsClient) # {}
  /\ wsClient' = connect([wsClient EXCEPT !.reconnectTimeout = FALSE])
  /\ UNCHANGED <<lastCall, connectedClients, chatVarsRest, botVars, now, nTicks>>

(* ---------- adapters: the synchronous head of query() ---------- *)
\* variant: no id is generated, a new turn runs without session id
SessionIdFor_NoGen(resume, t) == resume

\* const sessionId = options.sessionId || `${providerId}-${Date.now()}-...`
SessionIdFor(resume, t) == IF resume # NoSession THEN resume ELSE GenSessionId(t)

\* buildMessages / the messages array of WenxinProvider.query: the supplied
\* history, then the current user message (roles only)
buildMessages(history) == history \o << "user" >>

\* which adapter serves a provider id (openai-compatible ids share one instance)
AdapterOf(providerId) ==
  CASE getProviderConfig(providerId).type = "openai-compatible" -> "oai"
    [] getProviderConfig(providerId).type = "wenxin" -> "wenxin"
    [] OTHER -> None

\* variant: the missing key is not checked before the request
OaiQueryHead_NoKeyCheck(config, apiKey) ==
  IF config = NoConfig \/ config.type # "openai-compatible" THEN "invalid"
  ELSE "start"

\* OpenAICompatibleProvider.query up to its first await:
\* "invalid" | "nocred" | "start"
OaiQueryHead(config, apiKey) ==
  IF config = NoConfig \/ config.type # "openai-compatible" THEN "invalid"
  ELSE IF apiKey = NoKey THEN "nocred"
  ELSE "start"

\* WenxinProvider.query up to its first await: "nocred" | "start"
WenxinQueryHead(apiKey, secretKey) ==
  IF apiKey = NoKey \/ secretKey = NoKey THEN "nocred" ELSE "start"

\* the refresh margin (300000 ms) and the default token lifetime, in seconds
TokenBuffer == 300
DefaultExpiresIn == 2592000
Token(apiKey, secretKey) == <<"tok", apiKey, secretKey>>

\* the cache test without the refresh margin
TokenCacheValid_NoBuffer(tok, expiry, time) == tok # NoKey /\ time < expiry

\* getAccessToken: the cached token is used when still valid
TokenCacheValid(tok, expiry, time) == tok # NoKey /\ time < expiry - TokenBuffer

\* the two events of a failed turn
ErrorEvents(sessionId, t) ==
  << Event("error", sessionId, t, FALSE),
     Event("claude-complete", sessionId, t, FALSE) >>

\* handleChatMessage, data.type = 'ai-command', provider id without config or
\* with a type that is neither openai-compatible nor wenxin
StartUnrouted(c, providerId) ==
  LET t == nextTurn + 1
      config == getProviderConfig(providerId)
  IN /\ config = NoConfig \/ config.type \notin {"openai-compatible", "wenxin"}
     /\ nextTurn' = t
     /\ turns' = [turns EXCEPT ![t] =
                    [IdleTurn EXCEPT !.pc = "done", !.provider = providerId,
                                     !.userId = ConnUser(c), !.conn = c,
                                     !.outcome = IF config = NoConfig
                                                 THEN "unknown-provider"
                                                 ELSE "unsupported-type"]]
     /\ Send(<< Event("error", NoSession, t, FALSE) >>, c)
     /\ abortLog' = << >>
     /\ UNCHANGED <<auxVars, botVars, nTicks, connectedClients, credentialsDb, env, activeSessions,
                    cachedToken, tokenExpiry, now, nAborts>>

\* handleChatMessage 'ai-command' -> queryOpenAICompatible, up to the first await
StartOai(c, providerId, resume, dbFails, history) ==
  LET t == nextTurn + 1
      userId == ConnUser(c)
      config == getProviderConfig(providerId)
      sessionId == SessionIdFor(resume, t)
      apiKey == resolveApiKey(credentialsDb, env, providerId, userId)
      head == OaiQueryHead(config, apiKey)
      base == [IdleTurn EXCEPT !.provider = providerId, !.userId = userId,
                               !.conn = c, !.resume = resume]
  IN /\ config.type = "openai-compatible"
     /\ nextTurn' = t
     /\ abortLog' = << >>
     /\ IF dbFails /\ userId # NoUser /\ config.credentialType # None
        THEN \* getActiveCredential throws inside resolveApiKey: query() rejects
             /\ turns' = [turns EXCEPT ![t] =
                            [base EXCEPT !.pc = "rejected", !.sessionId = sessionId,
                                         !.outcome = "rejected"]]
             /\ UNCHANGED <<sent, delivery, activeSessions>>
        ELSE IF head = "start"
        THEN /\ activeSessions' =
                  [activeSessions EXCEPT !["oai"] =
                     addSession(@, sessionId, [controller |-> t, userId |-> userId])]
             /\ Send(<< Event("session-created", sessionId, t, TRUE) >>, c)
             /\ turns' = [turns EXCEPT ![t] =
                            [base EXCEPT !.pc = "fetch", !.sessionId = sessionId,
                                         !.apiKey = apiKey, !.registered = TRUE,
                                         !.requests = 1,
                                         !.messages = buildMessages(history)]]
        ELSE /\ Send(ErrorEvents(sessionId, t), c)
             /\ turns' = [turns EXCEPT ![t] =
                            [base EXCEPT !.pc = "done", !.sessionId = sessionId,
                                         !.apiKey = apiKey, !.outcome = head]]
             /\ UNCHANGED activeSessions
     /\ UNCHANGED <<auxVars, botVars, nTicks, connectedClients, credentialsDb, env, cachedToken, tokenExpiry,
                    now, nAborts>>

\* handleChatMessage 'ai-command' -> queryWenxin, up to the first await
StartWenxin(c, resume, dbFails, history) ==
  LET t == nextTurn + 1
      userId == ConnUser(c)
      creds == resolveCredentials(credentialsDb, env, userId)
      sessionId == SessionIdFor(resume, t)
      head == WenxinQueryHead(creds.apiKey, creds.secretKey)
      cached == TokenCacheValid(cachedToken, tokenExpiry, now)
      base == [IdleTurn EXCEPT !.provider = "wenxin", !.userId = userId,
                               !.conn = c, !.resume = resume]
  IN /\ nextTurn' = t
     /\ abortLog' = << >>
     /\ IF dbFails /\ userId # NoUser
        THEN \* getActiveCredential throws inside resolveCredentials
             /\ turns' = [turns EXCEPT ![t] =
                            [base EXCEPT !.pc = "rejected", !.outcome = "rejected"]]
             /\ UNCHANGED <<sent, delivery, activeSessions>>
        ELSE IF head = "start"
        THEN /\ activeSessions' =
                  [activeSessions EXCEPT !["wenxin"] =
                     addSession(@, sessionId, [controller |-> t, userId |-> NoUser])]
             /\ Send(<< Event("session-created", sessionId, t, TRUE) >>, c)
             /\ turns' = [turns EXCEPT ![t] =
                            [base EXCEPT !.sessionId = sessionId,
                                         !.apiKey = creds.apiKey,
                                         !.secretKey = creds.secretKey,
                                         !.registered = TRUE,
                                         !.messages = buildMessages(history),
                                         !.pc = IF cached THEN "fetch" ELSE "token",
                                         !.token = IF cached THEN cachedToken ELSE NoKey,
                                         !.requests = IF cached THEN 1 ELSE 0,
                                         !.tokenRequests = IF cached THEN 0 ELSE 1]]
        ELSE /\ Send(ErrorEvents(sessionId, t), c)
             /\ turns' = [turns EXCEPT ![t] =
                            [base EXCEPT !.pc = "done", !.sessionId = sessionId,
                                         !.apiKey = creds.apiKey,
                                         !.secretKey = creds.secretKey,
                                         !.outcome = head]]
             /\ UNCHANGED activeSessions
     /\ UNCHANGED <<auxVars, botVars, nTicks, connectedClients, credentialsDb, env, cachedToken, tokenExpiry,
                    now, nAborts>>

(* ---------- adapters: the asynchronous tail of query() ---------- *)
\* catch / finally of query(): the terminal events, then removeSession
\* the same without the finally block
EndTurn_KeepSession(t, events, outcome) ==
  /\ Send(events, turns[t].conn)
  /\ UNCHANGED activeSessions
  /\ turns' = [turns EXCEPT ![t].pc = "done", ![t].outcome = outcome]

EndTurn(t, events, outcome) ==
  /\ Send(events, turns[t].conn)
  /\ activeSessions' =
       [activeSessions EXCEPT ![AdapterOf(turns[t].provider)] =
          removeSession(@, turns[t].sessionId)]
  /\ turns' = [turns EXCEPT ![t].pc = "done", ![t].outcome = outcome]

\* variant: the AbortError branch of the catch sends nothing
AbortedEvents_Silent(t) == << >>

\* the AbortError branch of the catch of query()
AbortedEvents(t) ==
  << Event("session-aborted", turns[t].sessionId, t, TRUE) >>

TurnErrorEvents(t) == ErrorEvents(turns[t].sessionId, t)

\* the answer of the token exchange arrives (fetch without abort signal)
TokenResponse(t, ok, expiresIn) ==
  /\ turns[t].pc = "token"
  /\ abortLog' = << >>
  /\ IF ~ok
     THEN \* throw new Error('Wenxin OAuth failed ...'): not an AbortError
          /\ EndTurn(t, TurnErrorEvents(t), "error")
          /\ UNCHANGED <<cachedToken, tokenExpiry>>
     ELSE /\ cachedToken' = Token(turns[t].apiKey, turns[t].secretKey)
          /\ tokenExpiry' = now + (IF expiresIn = 0 THEN DefaultExpiresIn ELSE expiresIn)
          /\ IF turns[t].aborted
             THEN \* fetch with an already aborted signal rejects at once
                  EndTurn(t, AbortedEvents(t), "aborted")
             ELSE /\ turns' = [turns EXCEPT ![t].pc = "fetch",
                                            ![t].token = cachedToken',
                                            ![t].requests = @ + 1]
                  /\ UNCHANGED <<sent, delivery, activeSessions>>
  /\ UNCHANGED <<auxVars, botVars, nTicks, connectedClients, credentialsDb, env, now, nextTurn, nAborts>>

\* the chat request is answered: 2xx headers, non-2xx headers, or a network failure
FetchResponse(t, kind) ==
  /\ turns[t].pc = "fetch"
  /\ ~turns[t].aborted
  /\ abortLog' = << >>
  /\ CASE kind = "ok" ->
            /\ turns' = [turns EXCEPT ![t].pc = "read"]
            /\ UNCHANGED <<sent, delivery, activeSessions>>
       [] kind = "http-error" ->
            /\ turns' = [turns EXCEPT ![t].pc = "errbody"]
            /\ UNCHANGED <<sent, delivery, activeSessions>>
       [] OTHER -> EndTurn(t, TurnErrorEvents(t), "error")
  /\ UNCHANGED <<auxVars, botVars, nTicks, connectedClients, credentialsDb, env, cachedToken, tokenExpiry,
                 now, nextTurn, nAborts>>

\* await response.text() of a non-2xx answer ends, then the error is thrown
ErrorBody(t) ==
  /\ turns[t].pc = "errbody"
  /\ ~turns[t].aborted
  /\ abortLog' = << >>
  /\ EndTurn(t, TurnErrorEvents(t), "error")
  /\ UNCHANGED <<auxVars, botVars, nTicks, connectedClients, credentialsDb, env, cachedToken, tokenExpiry,
                 now, nextTurn, nAborts>>

FrameKinds == {"content", "finish", "malformed", "error_code"}

\* a content frame whose text is longer than any cap of a chat platform
LongFrameKinds == {"content_long"}

\* the length of the text one SSE data line adds to fullContent
FrameText(kind) ==
  CASE kind = "content" -> 1
    [] kind = "content_long" -> 6001
    [] OTHER -> 0

\* result.content of claude-complete: fullContent as accumulated
CompleteContent(t) ==
  [kind |-> "text", len |-> turns[t].fullContent, truncated |-> FALSE]

\* the events one SSE data line produces
FrameEvents(t, kind) ==
  CASE kind \in {"content", "content_long"} ->
         << Event("content_block_delta", turns[t].sessionId, t, TRUE) >>
    [] kind = "finish" ->
         << Event("content_block_stop", turns[t].sessionId, t, TRUE) >>
    [] OTHER -> << >>

\* data lines that are no JSON: any such line, and one whose text holds the
\* words 'Wenxin error'
BadFrameKinds == {"malformed", "malformed_wenxin_error"}

\* whether the inner catch of the SSE loop throws the error on.  Only the Wenxin
\* loop has a rethrow: it tests the message of whatever it caught for
\* 'Wenxin error'.  The message of JSON.parse's SyntaxError quotes the line on
\* some runtimes and only names a position on others
InnerCatchRethrows(providerId, kind) ==
  IF providerId # "wenxin" THEN {FALSE}
  ELSE CASE kind = "error_code" -> {TRUE}
         [] kind = "malformed_wenxin_error" -> BOOLEAN
         [] OTHER -> {FALSE}

\* reader.read() yields a chunk holding one data line
ReadChunk(t, kind) ==
  /\ turns[t].pc = "read"
  /\ ~turns[t].aborted
  /\ turns[t].frames < MaxFrames
  /\ abortLog' = << >>
  /\ \E rethrown \in InnerCatchRethrows(turns[t].provider, kind) :
       IF rethrown
       THEN \* the error leaves the loop for the catch of query()
            EndTurn(t, TurnErrorEvents(t), "error")
       ELSE /\ Send(FrameEvents(t, kind), turns[t].conn)
            /\ turns' = [turns EXCEPT ![t].frames = @ + 1,
                                       ![t].fullContent = @ + FrameText(kind)]
            /\ UNCHANGED activeSessions
  /\ UNCHANGED <<auxVars, botVars, nTicks, connectedClients, credentialsDb, env, cachedToken, tokenExpiry,
                 now, nextTurn, nAborts>>

\* reader.read() yields done: the completion signal
StreamEnd(t) ==
  /\ turns[t].pc = "read"
  /\ ~turns[t].aborted
  /\ abortLog' = << >>
  /\ EndTurn(t, << Event("claude-complete", turns[t].sessionId, t, TRUE) >>, "complete")
  /\ UNCHANGED <<auxVars, botVars, nTicks, connectedClients, credentialsDb, env, cachedToken, tokenExpiry,
                 now, nextTurn, nAborts>>

\* reader.read() rejects with a network error
StreamError(t) ==
  /\ turns[t].pc = "read"
  /\ ~turns[t].aborted
  /\ abortLog' = << >>
  /\ EndTurn(t, TurnErrorEvents(t), "error")
  /\ UNCHANGED <<auxVars, botVars, nTicks, connectedClients, credentialsDb, env, cachedToken, tokenExpiry,
                 now, nextTurn, nAborts>>

\* the pending fetch / text() / read() rejects with AbortError
AbortDelivered(t) ==
  /\ turns[t].pc \in {"fetch", "errbody", "read"}
  /\ turns[t].aborted
  /\ abortLog' = << >>
  /\ EndTurn(t, AbortedEvents(t), "aborted")
  /\ UNCHANGED <<auxVars, botVars, nTicks, connectedClients, credentialsDb, env, cachedToken, tokenExpiry,
                 now, nextTurn, nAborts>>

(* ---------- abort ---------- *)
\* variant: abort signals the controller and leaves the entry in place
AbortRegistry_Keep(sessions, sessionId) == sessions

\* the registry after abort(sessionId) found the session and signalled it
AbortRegistry(sessions, sessionId) == removeSession(sessions, sessionId)

\* variant: nothing is written when abort() found no session
AbortReply_Silent(sessionId, success) ==
  IF success THEN << Event("session-aborted", sessionId, 0, success) >> ELSE << >>

\* writer.send({type: 'session-aborted', sessionId, provider, success})
AbortReply(sessionId, success) == << Event("session-aborted", sessionId, 0, success) >>

\* session ids a client can name in an abort-session command
AbortIds == ClientSessionIds \cup
            ({turns[t].sessionId : t \in 1..nextTurn} \ {NoSession})

\* handleChatMessage, data.type = 'abort-session', routed to an HTTP adapter
AbortSession(c, providerId, sessionId) ==
  LET a == AdapterOf(providerId)
      found == isActive(activeSessions[a], sessionId)
      target == IF found THEN activeSessions[a][sessionId].controller ELSE 0
  IN /\ nAborts < MaxAborts
     /\ a \in Adapters
     /\ sessionId \in AbortIds
     /\ nAborts' = nAborts + 1
     /\ IF found
        THEN /\ turns' = [turns EXCEPT ![target].aborted = TRUE]
             /\ activeSessions' = [activeSessions EXCEPT ![a] = AbortRegistry(@, sessionId)]
        ELSE UNCHANGED <<turns, activeSessions>>
     /\ Send(AbortReply(sessionId, found), c)
     /\ abortLog' = Append(abortLog, [adapter |-> a, sessionId |-> sessionId,
                                      result |-> found, signalled |-> target])
     /\ UNCHANGED <<auxVars, botVars, nTicks, connectedClients, credentialsDb, env, cachedToken, tokenExpiry,
                    now, nextTurn>>

\* the session-status events sent so far, by session id and position
StatusEvents ==
  {p \in UNION {{<<sid, i>> : i \in DOMAIN sent[sid]} : sid \in SessionIds} :
     sent[p[1]][p[2]].type = "session-status"}

\* variant: every session is reported idle
StatusReply_Idle(providerId, sessionId) ==
  << Event("session-status", sessionId, 0, FALSE) >>

\* the answer to check-session-status: isProcessing is isActive of the adapter
\* the provider field selects
StatusReply(providerId, sessionId) ==
  << Event("session-status", sessionId, 0,
           isActive(activeSessions[AdapterOf(providerId)], sessionId)) >>

\* handleChatMessage, data.type = 'check-session-status', routed to an HTTP
\* adapter
CheckStatus(c, providerId, sessionId) ==
  /\ Cardinality(StatusEvents) < MaxStatus
  /\ AdapterOf(providerId) \in Adapters
  /\ sessionId \in AbortIds
  /\ Send(StatusReply(providerId, sessionId), c)
  /\ abortLog' = << >>
  /\ UNCHANGED <<auxVars, botVars, nTicks, connectedClients, credentialsDb, env,
                 activeSessions, cachedToken, tokenExpiry, now, turns, nextTurn,
                 nAborts>>

\* data.expires_in of a token answer, in seconds: absent, or five minutes
ExpiresInValues == {0, 300}

(* ---------- clock ---------- *)
chatVars == <<connectedClients, credentialsDb, env, activeSessions, cachedToken,
              tokenExpiry, turns, nextTurn, sent, nAborts, delivery, abortLog>>

\* d seconds pass
Tick(d) ==
  /\ nTicks < MaxTicks
  /\ nTicks' = nTicks + 1
  /\ now' = now + d
  /\ UNCHANGED <<auxVars, chatVars, botVars>>

(* ---------- bot gateway ---------- *)
\* 30 * 60 * 1000 ms, in seconds: the age limit and the period of the sweep
SessionTTL == 1800
SweepInterval == 1800

\* botSessions.get(sessionKey)?.sessionId || null
botResumeId(sessions, key) ==
  IF key \in DOMAIN sessions THEN sessions[key].sessionId ELSE NoSession

\* botSessions.delete(sessionKey)
clearBotSession(sessions, key) == [k \in (DOMAIN sessions) \ {key} |-> sessions[k]]

\* variant: an entry whose age equals the limit is deleted too
StaleKeys_Inclusive(sessions, time) ==
  {k \in DOMAIN sessions : sessions[k].lastActive <= time - SessionTTL}

\* the entries a sweep pass deletes: session.lastActive < staleThreshold
StaleKeys(sessions, time) ==
  {k \in DOMAIN sessions : sessions[k].lastActive < time - SessionTTL}

\* the cap of a platform's replies
maxLength(platform) == IF platform = "dingtalk" THEN 6000 ELSE 4000

\* responseText.slice(0, maxLength) + marker when longer than the cap
Truncate(len, cap) ==
  IF len > cap
  THEN [kind |-> "text", len |-> cap, truncated |-> TRUE]
  ELSE [kind |-> "text", len |-> len, truncated |-> FALSE]

\* the value processMessage returns after a normal end of the SDK loop
BotReply(len, platform) ==
  IF Truncate(len, maxLength(platform)).len = 0
  THEN [kind |-> "placeholder", len |-> 0, truncated |-> FALSE]
  ELSE Truncate(len, maxLength(platform))

\* the value processMessage returns from its catch
BotErrorReply == [kind |-> "error", len |-> 0, truncated |-> FALSE]

\* the session ids the SDK may report to call i: none, a new one, the resumed one
SdkSessionIds(i) == {NoSession, BotGenSessionId(i), botCalls[i].resume}

\* processMessage up to the first await of the SDK query
BotStart(i, key) ==
  /\ botCalls[i].pc = "idle"
  /\ \A j \in BotCalls : j < i => botCalls[j].pc # "idle"
  /\ botCalls' = [botCalls EXCEPT ![i] =
                    [IdleCall EXCEPT !.pc = "query", !.key = key,
                                     !.resume = botResumeId(botSessions, key),
                                     !.afterClear = (key \in cleared)]]
  /\ cleared' = cleared \ {key}
  /\ UNCHANGED <<auxVars, chatVars, now, nTicks, botSessions, lastSweep>>

\* the SDK query of call i ends: normally, having reported session id sid
\* and len characters of text (ok), or by throwing
BotEnd(i, sid, ok, len) ==
  /\ botCalls[i].pc = "query"
  /\ sid \in SdkSessionIds(i)
  /\ ~ok => sid = NoSession
  /\ ~ok => len = 0
  /\ botCalls' = [botCalls EXCEPT ![i].pc = "done", ![i].newSessionId = sid,
                                  ![i].responseText = len,
                                  ![i].reply = IF ok THEN BotReply(len, botCalls[i].key[1])
                                               ELSE BotErrorReply]
  /\ botSessions' =
       IF ok /\ sid # NoSession
       THEN [k \in (DOMAIN botSessions) \cup {botCalls[i].key} |->
               IF k = botCalls[i].key
               THEN [sessionId |-> sid, lastActive |-> now]
               ELSE botSessions[k]]
       ELSE botSessions
  /\ UNCHANGED <<auxVars, chatVars, now, nTicks, lastSweep, cleared>>

\* the /clear command of a conversation
Clear(key) ==
  /\ botSessions' = clearBotSession(botSessions, key)
  /\ cleared' = cleared \cup {key}
  /\ UNCHANGED <<auxVars, chatVars, now, nTicks, botCalls, lastSweep>>

\* the setInterval callback: one pass over the map
Sweep ==
  /\ now > 0 /\ now % SweepInterval = 0
  /\ botSessions' = [k \in (DOMAIN botSessions) \ StaleKeys(botSessions, now) |->
                       botSessions[k]]
  /\ lastSweep' = [removed |-> StaleKeys(botSessions, now),
                   kept |-> (DOMAIN botSessions) \ StaleKeys(botSessions, now)]
  /\ UNCHANGED <<auxVars, chatVars, now, nTicks, botCalls, cleared>>

\* the clock step of the bot scenarios: half an hour
BotTickSteps == {SessionTTL}

\* start-turn commands: at most limit of them, arriving on the sockets of
\* conns, with options.history drawn from histories
StartSteps(limit, conns, histories) ==
  \/ /\ nextTurn < limit
     /\ \E c \in conns, p \in ProviderIds : StartUnrouted(c, p)
  \/ /\ nextTurn < limit
     /\ \E c \in conns, p \in ProviderIds, r \in {NoSession} \cup ClientSessionIds,
           f \in BOOLEAN, h \in histories : StartOai(c, p, r, f, h)
  \/ /\ nextTurn < limit
     /\ \E c \in conns, r \in {NoSession} \cup ClientSessionIds, f \in BOOLEAN,
           h \in histories : StartWenxin(c, r, f, h)

\* the upstream answers a turn waits for
StreamSteps ==
  \/ \E t \in Turns, ok \in BOOLEAN, x \in ExpiresInValues : TokenResponse(t, ok, x)
  \/ \E t \in Turns, k \in {"ok", "http-error", "network-error"} : FetchResponse(t, k)
  \/ \E t \in Turns : ErrorBody(t)
  \/ \E t \in Turns, k \in FrameKinds : ReadChunk(t, k)
  \/ \E t \in Turns : StreamEnd(t)
  \/ \E t \in Turns : StreamError(t)

\* abort-session commands arriving on the sockets of conns, and their effect
AbortSteps(conns) ==
  \/ \E c \in conns, p \in {"kimi", "wenxin"}, sid \in SessionIds : AbortSession(c, p, sid)
  \/ \E t \in Turns : AbortDelivered(t)

\* user 1 has stored all three credentials, the environment sets none
InitMain ==
  /\ Init
  /\ credentialsDb = {<<1, "moonshot_api_key">>, <<1, "baidu_api_key">>,
                      <<1, "baidu_secret_key">>}
  /\ env = {}

\* concurrent turns of two users, one socket each
Next ==
  \/ StartSteps(MaxTurns, MainConns, {NoHistory})
  \/ StreamSteps
  \/ AbortSteps(MainConns)

Spec == InitMain /\ [][Next]_vars

\* the same with MaxSoloTurns turns
NextSolo ==
  \/ StartSteps(MaxSoloTurns, MainConns, HistoryOptions)
  \/ StreamSteps
  \/ AbortSteps(MainConns)

SpecSolo == InitMain /\ [][NextSolo]_vars

\* no query() call is between its first await and its finally block
NoTurnInFlight == \A t \in Turns : turns[t].pc \in {"idle", "done", "rejected"}

\* every credential setup of user 1, the user who stores credentials; the
\* client sends the next command when the turn before it has ended, and never
\* aborts
NextCred ==
  \/ NoTurnInFlight /\ StartSteps(MaxSoloTurns, {1}, {NoHistory})
  \/ StreamSteps

SpecCred == Init /\ [][NextCred]_vars

\* sockets register in the connection map, commands arrive on registered sockets
NextFanout ==
  \/ \E c \in Conns : Connect(c)
  \/ StartSteps(MaxSoloTurns, OpenSockets(connectedClients), {NoHistory})
  \/ StreamSteps
  \/ AbortSteps(OpenSockets(connectedClients))

SpecFanout == InitMain /\ [][NextFanout]_vars

\* the upstream answers of a stream that carries no data line
AnswerSteps ==
  \/ \E t \in Turns, ok \in BOOLEAN, x \in ExpiresInValues : TokenResponse(t, ok, x)
  \/ \E t \in Turns, k \in {"ok", "http-error", "network-error"} : FetchResponse(t, k)
  \/ \E t \in Turns : ErrorBody(t)
  \/ \E t \in Turns : StreamEnd(t)
  \/ \E t \in Turns : StreamError(t)

\* turns and abort-session commands of two users, one socket each; the
\* upstream streams carry no data line
NextAbort ==
  \/ StartSteps(MaxSoloTurns, MainConns, {NoHistory})
  \/ AnswerSteps
  \/ AbortSteps(MainConns)

SpecAbort == InitMain /\ [][NextAbort]_vars

\* the clock steps of the token scenarios: the refresh margin, and the rest of
\* the default token lifetime
TokenTickSteps == {TokenBuffer, DefaultExpiresIn - TokenBuffer}

\* Wenxin turns of user 1 on one socket, their upstream answers, and the clock
NextToken ==
  \/ nextTurn < MaxTurns /\ StartWenxin(1, NoSession, FALSE, NoHistory)
  \/ AnswerSteps
  \/ \E d \in TokenTickSteps : Tick(d)

SpecToken == InitMain /\ [][NextToken]_vars

\* turns of user 1 on one socket, one after the other, over a connection that
\* does not break; their streams also carry lines that are no JSON
NextFrames ==
  \/ NoTurnInFlight /\ StartSteps(MaxTurns, {1}, {NoHistory})
  \/ \E t \in Turns, ok \in BOOLEAN, x \in ExpiresInValues : TokenResponse(t, ok, x)
  \/ \E t \in Turns, k \in {"ok", "http-error"} : FetchResponse(t, k)
  \/ \E t \in Turns : ErrorBody(t)
  \/ \E t \in Turns, k \in FrameKinds \cup BadFrameKinds : ReadChunk(t, k)
  \/ \E t \in Turns : StreamEnd(t)

SpecFrames == InitMain /\ [][NextFrames]_vars

\* the lengths of the response text of a bot call: none, and around both caps
ResponseLengths == {0, 1, 4000, 4001, 6000, 6001}

\* texts of every length: bot calls of two conversations, and turns of user 1
\* on one socket whose streams also carry long content frames
NextText ==
  \/ \E i \in BotCalls, k \in BotKeys : BotStart(i, k)
  \/ \E i \in BotCalls, ok \in BOOLEAN, len \in ResponseLengths :
        BotEnd(i, IF ok THEN BotGenSessionId(i) ELSE NoSession, ok, len)
  \/ NoTurnInFlight /\ StartSteps(MaxSoloTurns, {1}, {NoHistory})
  \/ \E t \in Turns, x \in ExpiresInValues : TokenResponse(t, TRUE, x)
  \/ \E t \in Turns : FetchResponse(t, "ok")
  \/ \E t \in Turns, k \in {"content", "finish"} \cup LongFrameKinds : ReadChunk(t, k)
  \/ \E t \in Turns : StreamEnd(t)

SpecText == InitMain /\ [][NextText]_vars

\* the connection map alone: every call with every user id and socket
NextConn ==
  \/ \E u \in MapUsers, c \in Conns : Register(u, c)
  \/ \E u \in MapUsers, c \in Conns : Unregister(u, c)

SpecConn == InitMain /\ [][NextConn]_vars

\* turns of user 1 on one socket, over streams without data lines, and
\* check-session-status commands for every id
NextStatus ==
  \/ StartSteps(MaxSoloTurns, {1}, {NoHistory})
  \/ AnswerSteps
  \/ \E p \in {"kimi", "wenxin"}, sid \in SessionIds : CheckStatus(1, p, sid)

SpecStatus == InitMain /\ [][NextStatus]_vars

\* the browser alone: the page loads, the token changes, sockets open and
\* close, the timers fire
NextClient ==
  \/ \E pf \in BOOLEAN, tok \in {NoAuth} \cup AuthTokens : Mount(pf, tok)
  \/ \E tok \in {NoAuth} \cup AuthTokens : TokenChange(tok)
  \/ \E n \in Sockets : SocketOpen(n)
  \/ \E n \in Sockets : ConnectionTimeout(n)
  \/ \E n \in Sockets : SocketClose(n)
  \/ ReconnectTimeout

SpecClient == InitMain /\ [][NextClient]_vars

\* Wenxin turns of two users, one socket each, under every credential setup:
\* user 1 may have stored keys, user 2 has the keys of the environment
NextShare ==
  \/ /\ nextTurn < MaxTurns
     /\ \E c \in MainConns : StartWenxin(c, NoSession, FALSE, NoHistory)
  \/ AnswerSteps

SpecShare == Init /\ [][NextShare]_vars

\* the sockets that start turns and those that send abort-session when the
\* two are different users
OwnerConns == {1}
ForeignConns == {2}

\* turns of user 1, abort-session commands of user 2 only
NextForeign ==
  \/ StartSteps(MaxSoloTurns, OwnerConns, {NoHistory})
  \/ AnswerSteps
  \/ AbortSteps(ForeignConns)

SpecForeign == InitMain /\ [][NextForeign]_vars

\* every upstream request eventually responds, ends or fails, and a signalled
\* abort eventually rejects the pending await
UpstreamProgress ==
  \/ StreamSteps
  \/ \E t \in Turns : AbortDelivered(t)

\* turns of user 1 on one socket, one after the other, each of which the
\* client may abort while it is in flight, over an upstream that always answers
NextLive ==
  \/ /\ NoTurnInFlight /\ nextTurn < MaxSoloTurns
     /\ \/ StartOai(1, "kimi", NoSession, FALSE, NoHistory)
        \/ StartWenxin(1, NoSession, FALSE, NoHistory)
  \/ StreamSteps
  \/ \E t \in Turns :
       /\ ~NoTurnInFlight /\ turns[t].registered
       /\ AbortSession(1, turns[t].provider, turns[t].sessionId)
  \/ \E t \in Turns : AbortDelivered(t)

SpecLive == InitMain /\ [][NextLive]_vars /\ WF_vars(UpstreamProgress)

\* the bot gateway alone: messages and /clear commands of two conversations,
\* the sweep timer and the clock
NextBot ==
  \/ \E i \in BotCalls, k \in BotKeys : BotStart(i, k)
  \/ \E i \in BotCalls, sid \in {NoSession} \cup {BotGenSessionId(j) : j \in BotCalls},
        ok \in BOOLEAN : BotEnd(i, sid, ok, IF ok THEN 1 ELSE 0)
  \/ \E k \in BotKeys : Clear(k)
  \/ Sweep
  \/ \E d \in BotTickSteps : Tick(d)

SpecBot == InitMain /\ [][NextBot]_vars

(* ---------- properties ---------- *)
IsTerminal(e) == e.type \in {"claude-complete", "session-aborted"}

Terminals(log) == {i \in DOMAIN log : IsTerminal(log[i])}

Started(t) == turns[t].pc # "idle"

\* the turn was handed to one of the two adapters
Routed(t) == Started(t) /\ AdapterOf(turns[t].provider) \in Adapters

\* the events a turn emitted, in order
EventsOf(t) == SelectSeq(sent[turns[t].sessionId], LAMBDA e : e.turn = t)

\* C1: every turn started through the dispatcher has, once it ended, exactly one
\* terminal event (claude-complete or session-aborted) under its session id,
\* and no event with that session id follows the terminal event (stated for
\* turns with a generated id, which no other turn shares)
C1_ExactlyOneTerminal ==
  \A t \in Turns :
    Routed(t) /\ turns[t].resume = NoSession /\ turns[t].pc # "rejected" =>
      LET log == sent[GenSessionId(t)] IN
      /\ Cardinality(Terminals(log)) <= 1
      /\ Terminals(log) # {} => IsTerminal(log[Len(log)])
      /\ turns[t].pc = "done" => Terminals(log) # {}

\* C2 as claimed: for a new turn of an adapter the first event is
\* session-created with a non-empty session id, also when the turn fails
C2_FirstIsSessionCreated ==
  \A t \in Turns :
    Routed(t) /\ turns[t].resume = NoSession /\ EventsOf(t) # << >> =>
      /\ EventsOf(t)[1].type = "session-created"
      /\ EventsOf(t)[1].sessionId # NoSession

\* C2 amended: every event an adapter emits for a new turn carries the turn's
\* one non-empty session id; a turn that passes the provider-type and
\* credential checks emits session-created first; a turn that fails those
\* checks emits error then claude-complete and no session-created
C2_SessionIdStable ==
  \A t \in Turns :
    Routed(t) /\ turns[t].resume = NoSession =>
      /\ turns[t].pc # "rejected" => turns[t].sessionId # NoSession
      /\ \A sid \in SessionIds : \A i \in DOMAIN sent[sid] :
           sent[sid][i].turn = t =>
             sent[sid][i].sessionId = turns[t].sessionId /\ sid # NoSession
      /\ turns[t].registered =>
           EventsOf(t) # << >> /\ EventsOf(t)[1].type = "session-created"
      /\ turns[t].outcome \in {"nocred", "invalid"} =>
           /\ Len(EventsOf(t)) = 2
           /\ EventsOf(t)[1].type = "error"
           /\ EventsOf(t)[2].type = "claude-complete"

\* a new turn that registered, failed on its request and emitted its three events
C2_Witness ==
  \E t \in Turns :
    /\ turns[t].resume = NoSession /\ turns[t].registered
    /\ turns[t].outcome = "error"
    /\ Len(EventsOf(t)) = 3

\* C3: a registry entry that exists keeps its cancellation handle: registering
\* an id that is in use does not replace the handle
C3_RegistryExclusive ==
  [][\A a \in Adapters : \A sid \in SessionIds :
       isActive(activeSessions[a], sid) /\ isActive(activeSessions'[a], sid) =>
         activeSessions'[a][sid].controller = activeSessions[a][sid].controller]_vars

\* C4: of two back-to-back abort calls for one id of one adapter the second
\* returns false, and a call returns true only when it signalled the
\* controller registered under the id
C4_AbortIdempotent ==
  \A i \in DOMAIN abortLog :
    /\ abortLog[i].result =>
         /\ abortLog[i].signalled \in Turns
         /\ turns[abortLog[i].signalled].aborted
         /\ turns[abortLog[i].signalled].sessionId = abortLog[i].sessionId
    /\ ~abortLog[i].result => abortLog[i].signalled = 0
    /\ i > 1 /\ abortLog[i - 1].adapter = abortLog[i].adapter
             /\ abortLog[i - 1].sessionId = abortLog[i].sessionId
         => ~abortLog[i].result

\* two back-to-back aborts of one registered session: true, then false
C4_Witness ==
  /\ Len(abortLog) = 2
  /\ abortLog[1].adapter = abortLog[2].adapter
  /\ abortLog[1].sessionId = abortLog[2].sessionId
  /\ abortLog[1].result /\ ~abortLog[2].result

\* C5: an adapter ends a turn with session-aborted exactly when the abort
\* signal came first, and a registry entry disappears only through the end of
\* the turn that owns it or through the abort that signals that turn
C5_RemovedOnceByOwner ==
  [][/\ \A t \in Turns :
          turns[t].pc # "done" /\ turns'[t].pc = "done" /\ turns[t].registered =>
            /\ turns'[t].outcome = "aborted" => turns[t].aborted
            /\ turns'[t].outcome = "complete" => ~turns[t].aborted
     /\ \A a \in Adapters : \A sid \in SessionIds :
          isActive(activeSessions[a], sid) /\ ~isActive(activeSessions'[a], sid) =>
            LET t == activeSessions[a][sid].controller IN
            \/ turns[t].pc # "done" /\ turns'[t].pc = "done"
            \/ ~turns[t].aborted /\ turns'[t].aborted]_vars

\* the value the claim expects: stored, else environment, else absent
ExpectedSecret(userId, credentialType, envKey) ==
  IF <<userId, credentialType>> \in credentialsDb THEN DbValue(userId, credentialType)
  ELSE IF envKey \in env THEN EnvValue(envKey)
  ELSE NoKey

\* C6: the credential a turn resolved is the stored one when there is one,
\* else the environment one when there is one, else the absence value
C6_CredentialPrecedence ==
  \A t \in Turns :
    Routed(t) /\ turns[t].pc # "rejected" =>
      IF turns[t].provider = "wenxin"
      THEN /\ turns[t].apiKey =
                ExpectedSecret(turns[t].userId, "baidu_api_key", "BAIDU_API_KEY")
           /\ turns[t].secretKey =
                ExpectedSecret(turns[t].userId, "baidu_secret_key", "BAIDU_SECRET_KEY")
      ELSE turns[t].apiKey =
             ExpectedSecret(turns[t].userId, "moonshot_api_key", "MOONSHOT_API_KEY")

\* stored and environment value both exist and the stored one was resolved
C6_Witness ==
  \E t \in Turns :
    /\ turns[t].provider = "kimi" /\ turns[t].pc \notin {"idle", "rejected"}
    /\ <<turns[t].userId, "moonshot_api_key">> \in credentialsDb
    /\ "MOONSHOT_API_KEY" \in env
    /\ turns[t].apiKey = DbValue(turns[t].userId, "moonshot_api_key")

\* the credential(s) the turn's provider needs did not resolve
MissingCredential(t) ==
  \/ turns[t].apiKey = NoKey
  \/ turns[t].provider = "wenxin" /\ turns[t].secretKey = NoKey

\* C7: a turn whose credential does not resolve is over at once with the
\* configuration error: error then claude-complete, no chat request, no token
\* exchange, no registry entry, and nothing is ever issued for it
C7_NoCredentialNoNetwork ==
  \A t \in Turns :
    Routed(t) /\ turns[t].pc # "rejected" /\ MissingCredential(t) =>
      /\ turns[t].pc = "done" /\ turns[t].outcome = "nocred"
      /\ turns[t].requests = 0 /\ turns[t].tokenRequests = 0
      /\ ~turns[t].registered
      /\ \A a \in Adapters : \A sid \in DOMAIN activeSessions[a] :
           activeSessions[a][sid].controller # t
      /\ Len(EventsOf(t)) = 2
      /\ EventsOf(t)[1].type = "error"
      /\ EventsOf(t)[2].type = "claude-complete" /\ ~EventsOf(t)[2].ok

\* an openai-compatible turn ended on the missing key
C7_Witness ==
  \E t \in Turns :
    turns[t].provider = "kimi" /\ turns[t].outcome = "nocred" /\ turns[t].pc = "done"

\* C8: every event written in answer to a start-turn carries a non-empty
\* session id
C8_EveryEventHasSessionId ==
  \A i \in DOMAIN sent[NoSession] : sent[NoSession][i].turn = 0

\* C9: every event reaches every registered socket of the owning user and no
\* socket of another user
C9_FanOutToUser == delivery.missed = {} /\ delivery.foreign = {}

\* C10: handleChatMessage never rejects; an exception inside the adapter
\* becomes an error event with the turn's session id
C10_NoRejection ==
  \A t \in Turns : turns[t].pc # "rejected"

\* C11: a turn that supplies a resume session id and is run by the adapter
\* (not failed with an error event before any request) carries the prior
\* context of that id in its request; it is never run with the current user
\* message alone
C11_ResumeNeverFresh ==
  \A t \in Turns :
    Routed(t) /\ turns[t].resume # NoSession /\ turns[t].registered =>
      Len(turns[t].messages) > Len(buildMessages(NoHistory))

\* C12: a sweep pass leaves no entry whose lastActive is older than the TTL,
\* leaves every other entry as it was, and a message of a swept conversation
\* that starts after the pass finds no session id to resume
C12_SweepEvictsStale ==
  [][Sweep =>
       /\ \A k \in DOMAIN botSessions' :
            /\ botSessions'[k].lastActive >= now - SessionTTL
            /\ k \in DOMAIN botSessions /\ botSessions'[k] = botSessions[k]
       /\ \A k \in DOMAIN botSessions :
            IF now - botSessions[k].lastActive > SessionTTL
            THEN botResumeId(botSessions', k) = NoSession
            ELSE k \in DOMAIN botSessions']_vars

\* a pass removed one conversation's entry and kept another's, whose age was
\* exactly the TTL; the removed conversation has no session id to resume
C12_Witness ==
  /\ lastSweep.removed # {} /\ lastSweep.kept # {}
  /\ \A k \in lastSweep.removed : botResumeId(botSessions, k) = NoSession
  /\ \E k \in lastSweep.kept :
       k \in DOMAIN botSessions /\ now - botSessions[k].lastActive = SessionTTL

\* C13: an abort-session that names a session id no adapter tracks writes
\* exactly one session-aborted event, with success false, under that id, and
\* leaves the registries and every turn as they were
C13_UnknownAbortBenign ==
  [][\A sid \in SessionIds :
       /\ nAborts' = nAborts + 1
       /\ abortLog'[Len(abortLog')].sessionId = sid
       /\ \A a \in Adapters : ~isActive(activeSessions[a], sid)
       => /\ ~abortLog'[Len(abortLog')].result
          /\ sent' = [sent EXCEPT ![sid] =
                        Append(@, Event("session-aborted", sid, 0, FALSE))]
          /\ activeSessions' = activeSessions
          /\ turns' = turns]_vars

\* an abort-session for an id no adapter tracks was just answered, while a
\* turn under another id is in flight
C13_Witness ==
  /\ abortLog # << >>
  /\ ~abortLog[Len(abortLog)].result
  /\ \A a \in Adapters : ~isActive(activeSessions[a], abortLog[Len(abortLog)].sessionId)
  /\ \E a \in Adapters : DOMAIN activeSessions[a] # {}

\* C14: at most one token exchange is in flight at a time: a Wenxin turn that
\* needs a token while another turn's exchange is pending waits for that
\* exchange instead of issuing its own
C14_SingleTokenExchange ==
  Cardinality({t \in Turns : turns[t].pc = "token"}) <= 1

\* C15: two turns in flight at once on the same connection for different
\* providers have distinct session ids, so that the events of each are logged
\* under an id of its own and ending one touches no registry entry of the other
C15_ConcurrentTurnsDistinctIds ==
  \A t, u \in Turns :
    /\ t # u /\ Routed(t) /\ Routed(u)
    /\ turns[t].registered /\ turns[u].registered
    /\ turns[t].conn = turns[u].conn
    /\ turns[t].provider # turns[u].provider
    => turns[t].sessionId # turns[u].sessionId

\* C16: the first processMessage of a conversation after its /clear starts a
\* new conversation: it passes no resume id to the SDK, whatever calls of the
\* conversation were in flight when the clear ran
C16_ClearStartsFresh ==
  \A i \in BotCalls :
    botCalls[i].pc # "idle" /\ botCalls[i].afterClear => botCalls[i].resume = NoSession

\* C17: getAccessToken returns the cached token without a token exchange
\* exactly when a token is cached and the expiry lies more than the margin
\* ahead; otherwise it issues one exchange, whose answer replaces the cached
\* token and expiry; a failed exchange ends in the thrown error and leaves both
\* unchanged
C17_TokenCache ==
  [][\A t \in Turns :
       /\ turns[t].pc = "idle" /\ turns'[t].registered =>
            IF cachedToken # NoKey /\ tokenExpiry - now > TokenBuffer
            THEN /\ turns'[t].tokenRequests = 0
                 /\ turns'[t].token = cachedToken
                 /\ cachedToken' = cachedToken /\ tokenExpiry' = tokenExpiry
            ELSE /\ turns'[t].tokenRequests = 1
                 /\ turns'[t].pc = "token"
                 /\ turns'[t].requests = 0
       /\ turns[t].pc = "token" /\ turns'[t].pc # "token" =>
            /\ turns'[t].tokenRequests = 1
            /\ IF turns'[t].outcome = "error"
               THEN /\ cachedToken' = cachedToken /\ tokenExpiry' = tokenExpiry
                    /\ turns'[t].requests = 0
               ELSE /\ cachedToken' = Token(turns[t].apiKey, turns[t].secretKey)
                    /\ tokenExpiry' - now \in
                         {DefaultExpiresIn} \cup (ExpiresInValues \ {0})]_vars

\* a turn fetched a token, time passed, and a later turn was served from the
\* cache, still more than the margin before the expiry
C17_Witness ==
  \E t, u \in Turns :
    /\ t < u /\ now > 0
    /\ turns[t].tokenRequests = 1 /\ turns[t].token # NoKey
    /\ turns[u].registered /\ turns[u].tokenRequests = 0
    /\ turns[u].token = cachedToken
    /\ tokenExpiry - now > TokenBuffer

\* C18: a data line that cannot be parsed is skipped in both adapters: the step
\* that reads it emits no event, leaves the turn reading its stream and leaves
\* the registry alone
C18_BadFrameSkipped ==
  [][\A t \in Turns, k \in BadFrameKinds :
       ReadChunk(t, k) =>
         /\ turns'[t].pc = "read"
         /\ sent' = sent
         /\ activeSessions' = activeSessions]_vars

\* C19: when the token exchange or the chat request fails, the answer is
\* non-2xx, or the stream breaks, and the turn was not aborted, the step ends the
\* turn: it emits error and then claude-complete carrying the error under the
\* turn's session id, removes the id from the adapter's registry and issues no
\* request; a turn that has ended never changes again
C19_TransportErrorEndsTurn ==
  [][\A t \in Turns :
       /\ \/ FetchResponse(t, "network-error")
          \/ ErrorBody(t)
          \/ StreamError(t)
          \/ \E x \in ExpiresInValues : TokenResponse(t, FALSE, x)
          => LET sid == turns[t].sessionId
                 n == Len(sent[sid])
             IN /\ Len(sent'[sid]) = n + 2
                /\ sent'[sid][n + 1] = Event("error", sid, t, FALSE)
                /\ sent'[sid][n + 2] = Event("claude-complete", sid, t, FALSE)
                /\ ~isActive(activeSessions'[AdapterOf(turns[t].provider)], sid)
                /\ turns'[t].pc = "done"
                /\ turns'[t].requests = turns[t].requests
                /\ turns'[t].tokenRequests = turns[t].tokenRequests
       /\ turns[t].pc = "done" => turns'[t] = turns[t]]_vars

\* a turn whose chat request went out has ended in error: its last two events
\* are error and claude-complete and its id is in no registry
C19_Witness ==
  \E t \in Turns :
    /\ Routed(t) /\ turns[t].outcome = "error" /\ turns[t].requests = 1
    /\ ~isActive(activeSessions[AdapterOf(turns[t].provider)], turns[t].sessionId)
    /\ Len(EventsOf(t)) = 3
    /\ EventsOf(t)[2].type = "error" /\ EventsOf(t)[3].type = "claude-complete"

\* C20: a turn that ended with a successful claude-complete emitted exactly one
\* content_block_stop before it, no content delta after that stop, and
\* claude-complete as its last event
C20_StopBeforeComplete ==
  \A t \in Turns :
    Routed(t) /\ turns[t].outcome = "complete" =>
      LET ev == EventsOf(t)
          stops == {i \in DOMAIN ev : ev[i].type = "content_block_stop"}
      IN /\ ev[Len(ev)].type = "claude-complete"
         /\ Cardinality(stops) = 1
         /\ \A i \in stops, j \in DOMAIN ev :
              ev[j].type = "content_block_delta" => j < i

\* C21: a text longer than the cap is delivered as its first cap characters
\* followed by the truncation marker, a text within the cap unchanged: for the
\* reply of processMessage (cap 6000 for dingtalk, 4000 otherwise) and for the
\* content of a turn's claude-complete (cap of a platform other than dingtalk)
C21_TruncatedAtCap ==
  /\ \A i \in BotCalls :
       botCalls[i].pc = "done" /\ botCalls[i].reply.kind = "text" =>
         LET cap == IF botCalls[i].key[1] = "dingtalk" THEN 6000 ELSE 4000
             len == botCalls[i].responseText
         IN IF len > cap
            THEN botCalls[i].reply.len = cap /\ botCalls[i].reply.truncated
            ELSE botCalls[i].reply.len = len /\ ~botCalls[i].reply.truncated
  /\ \A t \in Turns :
       Routed(t) /\ turns[t].outcome = "complete" =>
         IF turns[t].fullContent > 4000
         THEN CompleteContent(t).len = 4000 /\ CompleteContent(t).truncated
         ELSE CompleteContent(t).len = turns[t].fullContent
              /\ ~CompleteContent(t).truncated

\* C22: no user id of the connection map maps to an empty set; a removal
\* takes the socket out of the user's set only, deletes the user key when that
\* was its last socket, and changes nothing when the socket or the user is not
\* registered; an addition puts the socket into the user's set once and changes
\* nothing when it is there already
C22_NoEmptyUserEntry ==
  [][/\ \A u \in DOMAIN connectedClients' : connectedClients'[u] # {}
     /\ \A u \in MapUsers, c \in Conns :
          /\ Unregister(u, c) =>
               /\ SocketsOf(connectedClients', u) = SocketsOf(connectedClients, u) \ {c}
               /\ (SocketsOf(connectedClients, u) \subseteq {c}) =>
                     u \notin DOMAIN connectedClients'
               /\ c \notin SocketsOf(connectedClients, u) =>
                     connectedClients' = connectedClients
               /\ \A v \in MapUsers \ {u} :
                     SocketsOf(connectedClients', v) = SocketsOf(connectedClients, v)
          /\ Register(u, c) =>
               /\ SocketsOf(connectedClients', u) = SocketsOf(connectedClients, u) \cup {c}
               /\ Cardinality(SocketsOf(connectedClients', u)) =
                     Cardinality(SocketsOf(connectedClients, u) \ {c}) + 1
               /\ c \in SocketsOf(connectedClients, u) =>
                     connectedClients' = connectedClients
               /\ \A v \in MapUsers \ {u} :
                     SocketsOf(connectedClients', v) = SocketsOf(connectedClients, v)]_vars

\* the last call removed the last socket of a user, whose key is gone, while
\* another user still has sockets
C22_Witness ==
  /\ lastCall.op = "remove"
  /\ lastCall.userId \notin DOMAIN connectedClients
  /\ \E v \in DOMAIN connectedClients : Cardinality(connectedClients[v]) = 2

\* C23: a check-session-status command sends exactly one event, a
\* session-status under the id asked for whose isProcessing flag tells whether
\* the id is in the registry of the adapter the provider field selects, and
\* leaves the registries, the token cache, the connection map and the turns as
\* they are
C23_StatusIsPureQuery ==
  [][\A p \in {"kimi", "wenxin"}, sid \in SessionIds :
       CheckStatus(1, p, sid) =>
         /\ \A s \in SessionIds \ {sid} : sent'[s] = sent[s]
         /\ Len(sent'[sid]) = Len(sent[sid]) + 1
         /\ SubSeq(sent'[sid], 1, Len(sent[sid])) = sent[sid]
         /\ sent'[sid][Len(sent'[sid])].type = "session-status"
         /\ sent'[sid][Len(sent'[sid])].sessionId = sid
         /\ sent'[sid][Len(sent'[sid])].ok =
              (sid \in DOMAIN activeSessions[IF p = "wenxin" THEN "wenxin" ELSE "oai"])
         /\ activeSessions' = activeSessions
         /\ cachedToken' = cachedToken /\ tokenExpiry' = tokenExpiry
         /\ connectedClients' = connectedClients
         /\ turns' = turns]_vars

\* a status was reported as processing for an id whose turn is in flight, and
\* as idle for another id
C23_Witness ==
  \E sid, other \in SessionIds :
    /\ sid # other
    /\ sent[sid] # << >> /\ sent[other] # << >>
    /\ sent[sid][Len(sent[sid])].type = "session-status"
    /\ sent[sid][Len(sent[sid])].ok
    /\ \E a \in Adapters : isActive(activeSessions[a], sid)
    /\ sent[other][Len(sent[other])].type = "session-status"
    /\ ~sent[other][Len(sent[other])].ok

\* C24: a turn whose abort() returned true while it was in flight is never
\* reported with an error or a claude-complete event, and emits no content
\* delta, at whatever await the abort found it
C24_AbortNeverError ==
  \A t \in Turns :
    turns[t].aborted =>
      /\ turns[t].outcome \in {None, "aborted"}
      /\ \A i \in DOMAIN EventsOf(t) :
           EventsOf(t)[i].type \notin {"error", "claude-complete"}

\* C25: whenever the auth token changes to a non-null value, a socket is
\* created with the new token
C25_ReconnectOnTokenChange ==
  [][wsClient.pc = "mounted" /\ wsClient'.token # wsClient.token
       /\ wsClient'.token # NoAuth =>
       \E n \in Sockets :
         /\ wsClient.sockets[n].state = "unused"
         /\ wsClient'.sockets[n] = [state |-> "connecting", token |-> wsClient'.token]]_vars

\* C26: the bearer token a Wenxin turn sends was obtained by exchanging the
\* API key and secret key resolved for that turn
C26_TokenOfOwnCredentials ==
  \A t \in Turns :
    turns[t].provider = "wenxin" /\ turns[t].token # NoKey =>
      turns[t].token = Token(turns[t].apiKey, turns[t].secretKey)

\* C27: a turn is cancelled, and its registry entry removed by an abort, only
\* through an abort-session command of the user who started it: where every
\* such command comes from the sockets of ForeignConns, a cancelled turn
\* belongs to one of their users
C27_AbortOnlyByOwner ==
  \A t \in Turns :
    turns[t].aborted => turns[t].userId \in {ConnUser(c) : c \in ForeignConns}

\* C28: every turn that has sent session-created, has not ended and was not
\* aborted is tracked: its session id is in its adapter's registry and the
\* entry holds that turn's own controller
C28_InFlightTurnTracked ==
  \A t \in Turns :
    /\ turns[t].registered /\ ~turns[t].aborted
    /\ turns[t].pc \in {"token", "fetch", "errbody", "read"}
    => LET sessions == activeSessions[AdapterOf(turns[t].provider)]
       IN /\ isActive(sessions, turns[t].sessionId)
          /\ sessions[turns[t].sessionId].controller = t

\* C29: a turn that registered a session eventually has emitted a terminal
\* event and ended, with no registry entry of its own left, whatever path it
\* takes; and whenever no turn is in flight both registries are empty
C29_EveryTurnEnds ==
  /\ \A t \in Turns :
       turns[t].registered ~>
         /\ turns[t].pc = "done"
         /\ \E i \in DOMAIN EventsOf(t) : IsTerminal(EventsOf(t)[i])
         /\ LET sessions == activeSessions[AdapterOf(turns[t].provider)]
            IN ~(/\ isActive(sessions, turns[t].sessionId)
                 /\ sessions[turns[t].sessionId].controller = t)
  /\ [](NoTurnInFlight => \A a \in Adapters : DOMAIN activeSessions[a] = {})

\* a registered turn was aborted while reading its stream and has ended with
\* its own terminal event; the registries are empty
C29_Witness ==
  \E t \in Turns :
    /\ turns[t].registered /\ turns[t].pc = "done" /\ turns[t].outcome = "aborted"
    /\ turns[t].frames > 0
    /\ IsTerminal(EventsOf(t)[Len(EventsOf(t))])
    /\ \A a \in Adapters : DOMAIN activeSessions[a] = {}

\* C30: a start-turn for a provider that needs credentials and that the
\* provider listing reports as available to the user, under the same stored
\* credentials and environment, does not end in the missing-credential error
C30_AvailableMeansStartable ==
  [][\A t \in Turns :
       /\ turns[t].pc = "idle" /\ turns'[t].pc # "idle"
       /\ AdapterOf(turns'[t].provider) \in Adapters
       /\ providerAvailable(credentialsDb, env, turns'[t].provider, turns'[t].userId)
       => turns'[t].outcome # "nocred"]_vars
====
